---- MODULE Spec2Model ----
(***************************************************************************)
(* Model of src/ArduinoRover/ArduinoRover.ino: the control loop of the     *)
(* rover (three TCP channel readers, the 500 ms velocity timeout, the      *)
(* blocking fork ramp, the wheel dispatch).                                *)
(*                                                                         *)
(* Numbers.  A double received on the wire is represented by a fraction    *)
(* <<n, d>>, d > 0 (<<3, 2>> is 1.5, <<259, 2>> is 129.5, <<18, 17>> is     *)
(* 18/17), so that the fractional part of a command exists in the model.   *)
(* The ints of the program are plain integers.                             *)
(*                                                                         *)
(* Time.  The program only ever uses millis() in the differences           *)
(* millis() - _get_vel_time and millis() - _get_ang_time.  The model keeps *)
(* these two differences (vel_elapsed, ang_elapsed), in milliseconds,      *)
(* saturated at ElapsedCap (which stands for "ElapsedCap ms or more").     *)
(* The 2^32 ms wrap of millis() lies outside the model.                    *)
(***************************************************************************)
EXTENDS Integers, Sequences, FiniteSets, TLC

VARIABLES
    pc,             \* position of the single thread of control
    rx,             \* per channel: the complete commands buffered by the transport
    part,           \* per channel: buffered bytes of a command not yet complete
    client,         \* per channel: a client is attached to the listener
    _get_vel_vel,   \* int _get_vel_vel
    vel_elapsed,    \* millis() - _get_vel_time
    _get_ang_vel,   \* int _get_ang_vel
    ang_elapsed,    \* millis() - _get_ang_time
    _get_fork_pos,  \* int _get_fork_pos
    fork_new,       \* bool fork_new
    servo_target,   \* float servo_target
    current_servo,  \* float current_servo
    vel,            \* loop(): float vel
    ang_vel,        \* loop(): float ang_vel
    hw,             \* the latest call made on the motor carrier
    ramp_from,      \* history: current_servo when this pass of loop() began
    ramp_steps,     \* history: setServo/delay(20) pairs made in this pass
    decoded,        \* history: per channel, the double decoded in this pass
    doubleConvert   \* union { double num; byte array[8]; } doubleConvert

vars == <<pc, rx, part, client, _get_vel_vel, vel_elapsed, _get_ang_vel, ang_elapsed,
          _get_fork_pos, fork_new, servo_target, current_servo, vel, ang_vel,
          hw, ramp_from, ramp_steps, decoded, doubleConvert>>

(* ---------------------------- program constants ------------------------ *)
FORK_MIN == 128
FORK_MAX == 180
TimeoutMs == 500
SizeofDouble == 8
StepDelay == 20
SetupDelay == 500

(* ------------------------------- bounds -------------------------------- *)
\* commands a channel's transport buffer holds at most
MaxQueue == 1
\* vel_elapsed and ang_elapsed saturate here
ElapsedCap == 502

\* time one pass of loop() may take outside the ramp, in ms
LoopTimes == {StepDelay, 481}
\* commands of the host: 1.5
VelCmds == {<<3, 2>>}
\* -1.5
AngCmds == {<<-3, 2>>}
\* 129.5, 131.0, 182.0
ForkCmds == {<<259, 2>>, <<131, 1>>, <<182, 1>>}
\* bytes of a command that may arrive ahead of the rest
PartSizes == {4}
\* commands of a host that exercises the wheel arithmetic: 9.0, 0.0, 2.0
KinVelCmds == {<<9, 1>>, <<0, 1>>, <<2, 1>>}
\* 0.0, 18/17
KinAngCmds == {<<0, 1>>, <<18, 17>>}
\* 129.0
KinForkCmds == {<<129, 1>>}
\* commands of a host that only moves the fork: -2.5, 126.5, 129.5, 131.0,
\* 182.0
RampForkCmds == {<<-5, 2>>, <<253, 2>>, <<259, 2>>, <<131, 1>>, <<182, 1>>}

Channels == {"vel", "ang", "fork"}

(* ------------------------------ arithmetic ----------------------------- *)
Abs(x) == IF x < 0 THEN -x ELSE x

\* the macros min and max of Arduino.h
min(a, b) == IF a < b THEN a ELSE b
max(a, b) == IF a > b THEN a ELSE b

\* mutants: steps of two
FloatInc2(x) == x + 2
FloatDec2(x) == x - 2

\* x + 1 and x - 1 in binary32: exact up to 2^24, absorbed beyond
FloatInc(x) == IF x >= 16777216 THEN x ELSE x + 1
FloatDec(x) == IF x <= -16777216 THEN x ELSE x - 1

\* the fraction n / d, d > 0, truncated toward zero
FracToInt(n, d) == IF n >= 0 THEN n \div d ELSE -((-n) \div d)

\* conversion of a decoded double to int: truncation toward zero
DoubleToInt(c) == FracToInt(c[1], c[2])

\* no double decoded
NoCmd == <<>>

(* A float of vels_drive_wheels is a pair <<m, e>> that stands for m * 2^e,  *)
(* with m = 0 = e or 2^23 <= |m| < 2^24: binary32 without its subnormals,    *)
(* infinities and NaNs, none of which the wheel arithmetic reaches.  Every  *)
(* operation rounds its exact result to nearest, ties to even.              *)
Pow2Table[k \in 0 .. 30] == IF k = 0 THEN 1 ELSE 2 * Pow2Table[k - 1]
Pow2(k) == Pow2Table[k]

\* number of binary digits of n, 0 <= n < 2^31
Bits(n) ==
    IF n = 0 THEN 0
    ELSE CHOOSE b \in 1 .. 31 :
             n >= Pow2(b - 1) /\ (b = 31 \/ n < Pow2(b))

\* n / 2^k for n >= 0, rounded to nearest, ties to even; sticky says that
\* n stands for a value slightly above n
RoundShift(n, k, sticky) ==
    IF k = 0 THEN n
    ELSE LET q == n \div Pow2(k)
             r == n % Pow2(k)
             half == Pow2(k - 1)
         IN  IF r > half \/ (r = half /\ (sticky \/ q % 2 = 1))
             THEN q + 1 ELSE q

\* the float nearest to n * 2^e (to a value slightly further from 0 when
\* sticky)
FloatRound(n, e, sticky) ==
    IF n = 0 THEN <<0, 0>>
    ELSE LET s == IF n < 0 THEN -1 ELSE 1
             a == Abs(n)
             b == Bits(a)
         IN  IF b <= 24
             THEN <<s * a * Pow2(24 - b), e - (24 - b)>>
             ELSE LET q == RoundShift(a, b - 24, sticky)
                  IN  IF q = Pow2(24)
                      THEN <<s * Pow2(23), e + (b - 24) + 1>>
                      ELSE <<s * q, e + (b - 24)>>

\* conversion of the int i to float
IntToFloat(i) == FloatRound(i, 0, FALSE)

\* the product of the float f and the small whole number c
FMulInt(f, c) == FloatRound(f[1] * c, f[2], FALSE)

\* the quotient of the float f by the small whole number c > 0
FDivInt(f, c) ==
    LET s == IF f[1] < 0 THEN -1 ELSE 1
        n == Abs(f[1]) * Pow2(6)
    IN  FloatRound(s * (n \div c), f[2] - 6, n % c # 0)

FNeg(f) == <<-f[1], f[2]>>

\* the sum of two floats whose exponents are close
FAdd(f, g) ==
    IF f[1] = 0 THEN g
    ELSE IF g[1] = 0 THEN f
    ELSE LET e == min(f[2], g[2])
         IN  FloatRound(f[1] * Pow2(f[2] - e) + g[1] * Pow2(g[2] - e), e, FALSE)

\* conversion of a float to int: truncation toward zero
FloatToInt(f) ==
    IF f[2] >= 0 THEN f[1] * Pow2(f[2])
    ELSE IF -f[2] >= 30 THEN 0
    ELSE FracToInt(f[1], Pow2(-f[2]))

\* elapsed time e after d more milliseconds
Elapse(e, d) == min(e + d, ElapsedCap)

(* ------------------------------ hardware ------------------------------- *)
NoCall == [call |-> "none", angle |-> 0, M1 |-> 0, M2 |-> 0]
SetAngle(a) == [call |-> "setAngle", angle |-> a, M1 |-> 0, M2 |-> 0]
SetDuty(m1, m2) == [call |-> "setDuty", angle |-> 0, M1 |-> m1, M2 |-> m2]

\* mutant: no upper limit
setServoNoMax(dec) == SetAngle(max(FORK_MIN, dec))

\* setServo: the angle handed to servo3.setAngle
setServo(dec) == SetAngle(max(FORK_MIN, min(dec, FORK_MAX)))

\* mutant: both motors reversed
driveMotorsBoth(l, r) == SetDuty(-r, -l)

\* driveMotors(int l, int r): M1.setDuty(-r); M2.setDuty(l);
driveMotors(l, r) == SetDuty(-r, l)

\* float wheel_l = (2*lin_v)/9 - (17*ang_v)/18;
\* float wheel_r = (17*ang_v)/18 + (2*lin_v)/9;
WheelPair(lin_v, ang_v) ==
    LET lin_t == FDivInt(FMulInt(lin_v, 2), 9)
        ang_t == FDivInt(FMulInt(ang_v, 17), 18)
    IN  <<FAdd(lin_t, FNeg(ang_t)), FAdd(ang_t, lin_t)>>

\* vels_drive_wheels(float lin_v, float ang_v)
vels_drive_wheels(lin_v, ang_v) ==
    LET wheel == WheelPair(lin_v, ang_v)
    IN  driveMotors(FloatToInt(FMulInt(wheel[1], 10)),
                    FloatToInt(FMulInt(wheel[2], 10)))

\* the values get_vel and get_ang_vel can return: 0 and the commands of the
\* hosts, as ints
GatedValues ==
    {0} \cup {DoubleToInt(c) :
                c \in VelCmds \cup AngCmds \cup KinVelCmds \cup KinAngCmds}

\* vels_drive_wheels(vel, ang_vel) for every pair of values the two locals
\* of loop() can hold, computed once
Dispatched ==
    [lin_v \in GatedValues, ang_v \in GatedValues |->
        vels_drive_wheels(IntToFloat(lin_v), IntToFloat(ang_v))]

(* ------------------------------ transport ------------------------------ *)
\* client.available(): bytes buffered on the channel
Available(ch) == Len(rx[ch]) * SizeofDouble + part[ch]

\* client.read(doubleConvert.array, sizeof(double)): the 8 bytes read from
\* the buffer q, as the double they encode
Read(q) == Head(q)

\* mutant: the read empties the buffer
AfterReadFlush(q) == <<>>

\* client.read(doubleConvert.array, sizeof(double)): the commands left in the
\* buffer q once the oldest 8 bytes are read
AfterRead(q) == Tail(q)

\* the channel reader decodes on this poll
Decodes(ch) == client[ch] /\ Available(ch) >= SizeofDouble

\* mutant: the gate never times out
GateNever(elapsed, value) == value

\* mutant: the timeout is reached at 500 ms already
GateAtTimeout(elapsed, value) == IF elapsed >= TimeoutMs THEN 0 ELSE value

\* mutant: edge-triggered, the value is dropped only as the timeout passes
GateEdge(elapsed, value) == IF elapsed = TimeoutMs + 1 THEN 0 ELSE value

\* mutant: the gate allows for one step of the ramp
GateLate(elapsed, value) ==
    IF elapsed > TimeoutMs + StepDelay THEN 0 ELSE value

\* the 500 ms gate of get_vel and get_ang_vel
Gate(elapsed, value) == IF elapsed > TimeoutMs THEN 0 ELSE value

(* -------------------------------- Init --------------------------------- *)
\* the state at "Start" in setup(): the listeners are bound, and 500 ms of
\* delay have passed since boot
Init ==
    /\ pc = "setup_max"
    /\ rx = [ch \in Channels |-> <<>>]
    /\ part = [ch \in Channels |-> 0]
    /\ client = [ch \in Channels |-> FALSE]
    /\ _get_vel_vel = 0
    /\ vel_elapsed = SetupDelay
    /\ _get_ang_vel = 0
    /\ ang_elapsed = SetupDelay
    /\ _get_fork_pos = 0
    /\ fork_new = FALSE
    /\ servo_target = FORK_MIN
    /\ current_servo = FORK_MIN
    /\ vel = 0
    /\ ang_vel = 0
    /\ hw = NoCall
    /\ ramp_from = FORK_MIN
    /\ ramp_steps = 0
    /\ decoded = [ch \in Channels |-> NoCmd]
    /\ doubleConvert = <<0, 1>>

(* ------------------------------- setup --------------------------------- *)
\* setServo(FORK_MAX); delay(500);
SetupMax ==
    /\ pc = "setup_max"
    /\ UNCHANGED <<part, client, decoded, doubleConvert>>
    /\ hw' = setServo(FORK_MAX)
    /\ vel_elapsed' = Elapse(vel_elapsed, SetupDelay)
    /\ ang_elapsed' = Elapse(ang_elapsed, SetupDelay)
    /\ pc' = "setup_min"
    /\ UNCHANGED <<rx, _get_vel_vel, _get_ang_vel, _get_fork_pos, fork_new,
                   servo_target, current_servo, vel, ang_vel, ramp_from,
                   ramp_steps>>

\* setServo(FORK_MIN); delay(500);
SetupMin ==
    /\ pc = "setup_min"
    /\ UNCHANGED <<part, client, decoded, doubleConvert>>
    /\ hw' = setServo(FORK_MIN)
    /\ vel_elapsed' = Elapse(vel_elapsed, SetupDelay)
    /\ ang_elapsed' = Elapse(ang_elapsed, SetupDelay)
    /\ pc' = "get_vel"
    /\ UNCHANGED <<rx, _get_vel_vel, _get_ang_vel, _get_fork_pos, fork_new,
                   servo_target, current_servo, vel, ang_vel, ramp_from,
                   ramp_steps>>

(* ----------------------------- environment ----------------------------- *)
\* the host's command d reaches the buffer of channel ch.  Nothing reads a
\* buffer between two polls of its channel, so a command is let in when
\* that poll is next; on the fork channel also during a ramp, before its
\* last step (whichever step it arrives at, it waits for the same poll).
Arrives(ch) ==
    \/ ch = "vel" /\ pc = "get_vel"
    \/ ch = "ang" /\ pc = "get_ang_vel"
    \/ ch = "fork" /\ pc = "get_fork"
    \/ /\ ch = "fork" /\ pc = "ramp" /\ ramp_steps >= 1
       /\ Abs(servo_target - current_servo) = 1

\* the 8 bytes of the command d have arrived (the last of them, when a part
\* of the command was buffered already); the buffer holds at most cap commands
SendUpTo(ch, d, cap) ==
    /\ Len(rx[ch]) < cap
    /\ Arrives(ch)
    /\ rx' = [rx EXCEPT ![ch] = Append(@, d)]
    /\ part' = [part EXCEPT ![ch] = 0]
    /\ client' = [client EXCEPT ![ch] = TRUE]
    /\ UNCHANGED <<pc, _get_vel_vel, vel_elapsed, _get_ang_vel, ang_elapsed,
                   _get_fork_pos, fork_new, servo_target, current_servo, vel,
                   ang_vel, hw, ramp_from, ramp_steps, decoded,
                   doubleConvert>>

Send(ch, d) == SendUpTo(ch, d, MaxQueue)

\* only the first n bytes of the host's next command have arrived
SendPart(ch, n, cap) ==
    /\ Len(rx[ch]) < cap
    /\ part[ch] = 0
    /\ Arrives(ch)
    /\ part' = [part EXCEPT ![ch] = n]
    /\ client' = [client EXCEPT ![ch] = TRUE]
    /\ UNCHANGED <<pc, rx, _get_vel_vel, vel_elapsed, _get_ang_vel,
                   ang_elapsed, _get_fork_pos, fork_new, servo_target,
                   current_servo, vel, ang_vel, hw, ramp_from, ramp_steps,
                   decoded, doubleConvert>>

(* ------------------------------- loop ---------------------------------- *)
\* mutant: get_vel returns the stored value as it was before the gate
GetVelUngated(dt) ==
    /\ pc = "get_vel"
    /\ UNCHANGED <<part, client>>
    /\ LET got == Decodes("vel")
           stored == IF got THEN DoubleToInt(doubleConvert') ELSE _get_vel_vel
           since == IF got THEN 0 ELSE Elapse(vel_elapsed, dt)
       IN  /\ doubleConvert' = IF got THEN Read(rx["vel"]) ELSE doubleConvert
           /\ rx' = IF got THEN [rx EXCEPT !["vel"] = AfterRead(@)] ELSE rx
           /\ decoded' = [decoded EXCEPT
                             !["vel"] = IF got THEN Head(rx["vel"]) ELSE NoCmd]
           /\ vel_elapsed' = since
           /\ _get_vel_vel' = Gate(since, stored)
           /\ vel' = stored
    /\ ang_elapsed' = Elapse(ang_elapsed, dt)
    /\ hw' = NoCall
    /\ pc' = "get_ang_vel"
    /\ UNCHANGED <<_get_ang_vel, _get_fork_pos, fork_new, servo_target,
                   current_servo, ang_vel, ramp_from, ramp_steps>>

\* float vel = get_vel();  dt ms have passed since the previous pass
GetVel(dt) ==
    /\ pc = "get_vel"
    /\ UNCHANGED <<part, client>>
    /\ LET got == Decodes("vel")
           stored == IF got THEN DoubleToInt(doubleConvert') ELSE _get_vel_vel
           since == IF got THEN 0 ELSE Elapse(vel_elapsed, dt)
       IN  /\ doubleConvert' = IF got THEN Read(rx["vel"]) ELSE doubleConvert
           /\ rx' = IF got THEN [rx EXCEPT !["vel"] = AfterRead(@)] ELSE rx
           /\ decoded' = [decoded EXCEPT
                             !["vel"] = IF got THEN Head(rx["vel"]) ELSE NoCmd]
           /\ vel_elapsed' = since
           /\ _get_vel_vel' = Gate(since, stored)
           /\ vel' = Gate(since, stored)
    /\ ang_elapsed' = Elapse(ang_elapsed, dt)
    /\ hw' = NoCall
    /\ pc' = "get_ang_vel"
    /\ UNCHANGED <<_get_ang_vel, _get_fork_pos, fork_new, servo_target,
                   current_servo, ang_vel, ramp_from, ramp_steps>>

\* mutant: get_ang_vel takes doubleConvert.num whether or not it has read
GetAngVelReadsBuffer ==
    /\ pc = "get_ang_vel"
    /\ UNCHANGED <<part, client>>
    /\ LET got == Decodes("ang")
           stored == DoubleToInt(doubleConvert')
           since == IF got THEN 0 ELSE ang_elapsed
       IN  /\ doubleConvert' = IF got THEN Read(rx["ang"]) ELSE doubleConvert
           /\ rx' = IF got THEN [rx EXCEPT !["ang"] = AfterRead(@)] ELSE rx
           /\ decoded' = [decoded EXCEPT
                             !["ang"] = IF got THEN Head(rx["ang"]) ELSE NoCmd]
           /\ ang_elapsed' = since
           /\ _get_ang_vel' = Gate(since, stored)
           /\ ang_vel' = Gate(since, stored)
    /\ hw' = NoCall
    /\ pc' = "get_fork"
    /\ UNCHANGED <<_get_vel_vel, vel_elapsed, _get_fork_pos, fork_new,
                   servo_target, current_servo, vel, ramp_from, ramp_steps>>

\* float ang_vel = get_ang_vel();
GetAngVel ==
    /\ pc = "get_ang_vel"
    /\ UNCHANGED <<part, client>>
    /\ LET got == Decodes("ang")
           stored == IF got THEN DoubleToInt(doubleConvert') ELSE _get_ang_vel
           since == IF got THEN 0 ELSE ang_elapsed
       IN  /\ doubleConvert' = IF got THEN Read(rx["ang"]) ELSE doubleConvert
           /\ rx' = IF got THEN [rx EXCEPT !["ang"] = AfterRead(@)] ELSE rx
           /\ decoded' = [decoded EXCEPT
                             !["ang"] = IF got THEN Head(rx["ang"]) ELSE NoCmd]
           /\ ang_elapsed' = since
           /\ _get_ang_vel' = Gate(since, stored)
           /\ ang_vel' = Gate(since, stored)
    /\ hw' = NoCall
    /\ pc' = "get_fork"
    /\ UNCHANGED <<_get_vel_vel, vel_elapsed, _get_fork_pos, fork_new,
                   servo_target, current_servo, vel, ramp_from, ramp_steps>>

\* mutant: the fork returns to FORK_MIN once the angular channel times out
GetForkReturns ==
    /\ pc = "get_fork"
    /\ UNCHANGED <<part, client>>
    /\ LET got == Decodes("fork")
           back == ~got /\ ang_elapsed > TimeoutMs /\ current_servo # FORK_MIN
           stored == IF got THEN DoubleToInt(doubleConvert')
                     ELSE IF back THEN FORK_MIN ELSE _get_fork_pos
       IN  /\ doubleConvert' = IF got THEN Read(rx["fork"]) ELSE doubleConvert
           /\ rx' = IF got THEN [rx EXCEPT !["fork"] = AfterRead(@)] ELSE rx
           /\ decoded' = [decoded EXCEPT
                             !["fork"] = IF got THEN Head(rx["fork"]) ELSE NoCmd]
           /\ _get_fork_pos' = stored
           /\ fork_new' = (got \/ back \/ fork_new)
           /\ servo_target' = stored
           /\ pc' = IF got \/ back \/ fork_new THEN "ramp" ELSE "drive"
    /\ hw' = NoCall
    /\ UNCHANGED <<_get_vel_vel, vel_elapsed, _get_ang_vel, ang_elapsed,
                   current_servo, vel, ang_vel, ramp_from, ramp_steps>>

\* servo_target = get_fork();  if(fork_new) ...
GetFork ==
    /\ pc = "get_fork"
    /\ UNCHANGED <<part, client>>
    /\ LET got == Decodes("fork")
           stored == IF got THEN DoubleToInt(doubleConvert') ELSE _get_fork_pos
       IN  /\ doubleConvert' = IF got THEN Read(rx["fork"]) ELSE doubleConvert
           /\ rx' = IF got THEN [rx EXCEPT !["fork"] = AfterRead(@)] ELSE rx
           /\ decoded' = [decoded EXCEPT
                             !["fork"] = IF got THEN Head(rx["fork"]) ELSE NoCmd]
           /\ _get_fork_pos' = stored
           /\ fork_new' = (got \/ fork_new)
           /\ servo_target' = stored
           /\ pc' = IF got \/ fork_new THEN "ramp" ELSE "drive"
    /\ hw' = NoCall
    /\ UNCHANGED <<_get_vel_vel, vel_elapsed, _get_ang_vel, ang_elapsed,
                   current_servo, vel, ang_vel, ramp_from, ramp_steps>>

\* mutant: the loop body runs once before the test (do ... while)
RampStepFirst ==
    /\ pc = "ramp"
    /\ UNCHANGED <<part, client, decoded, doubleConvert>>
    /\ (current_servo # servo_target \/ ramp_steps = 0)
    /\ LET next == IF current_servo < servo_target
                   THEN FloatInc(current_servo)
                   ELSE FloatDec(current_servo)
       IN  /\ current_servo' = next
           /\ hw' = setServo(next)
    /\ vel_elapsed' = Elapse(vel_elapsed, StepDelay)
    /\ ang_elapsed' = Elapse(ang_elapsed, StepDelay)
    /\ ramp_steps' = ramp_steps + 1
    /\ UNCHANGED <<pc, rx, _get_vel_vel, _get_ang_vel, _get_fork_pos, fork_new,
                   servo_target, vel, ang_vel, ramp_from>>

\* mutant: the ramp polls the fork channel and follows a new target
RampStepRetarget ==
    /\ pc = "ramp"
    /\ UNCHANGED <<part, client, decoded, doubleConvert>>
    /\ current_servo # servo_target
    /\ LET got == Decodes("fork")
           next == IF current_servo < servo_target
                   THEN FloatInc(current_servo)
                   ELSE FloatDec(current_servo)
       IN  /\ current_servo' = next
           /\ hw' = setServo(next)
           /\ rx' = IF got THEN [rx EXCEPT !["fork"] = AfterRead(@)] ELSE rx
           /\ _get_fork_pos' = IF got THEN DoubleToInt(Head(rx["fork"]))
                                ELSE _get_fork_pos
           /\ servo_target' = IF got THEN DoubleToInt(Head(rx["fork"]))
                               ELSE servo_target
    /\ vel_elapsed' = Elapse(vel_elapsed, StepDelay)
    /\ ang_elapsed' = Elapse(ang_elapsed, StepDelay)
    /\ ramp_steps' = ramp_steps + 1
    /\ UNCHANGED <<pc, _get_vel_vel, _get_ang_vel, fork_new, vel, ang_vel,
                   ramp_from>>

\* mutant: the limits are applied to current_servo itself
RampStepClamped ==
    /\ pc = "ramp"
    /\ UNCHANGED <<part, client, decoded, doubleConvert>>
    /\ current_servo # servo_target
    /\ LET next == IF current_servo < servo_target
                   THEN FloatInc(current_servo)
                   ELSE FloatDec(current_servo)
       IN  /\ current_servo' = max(FORK_MIN, min(next, FORK_MAX))
           /\ hw' = setServo(next)
    /\ vel_elapsed' = Elapse(vel_elapsed, StepDelay)
    /\ ang_elapsed' = Elapse(ang_elapsed, StepDelay)
    /\ ramp_steps' = ramp_steps + 1
    /\ UNCHANGED <<pc, rx, _get_vel_vel, _get_ang_vel, _get_fork_pos, fork_new,
                   servo_target, vel, ang_vel, ramp_from>>

\* one pass of while(current_servo != servo_target)
RampStep ==
    /\ pc = "ramp"
    /\ UNCHANGED <<part, client, decoded, doubleConvert>>
    /\ current_servo # servo_target
    /\ LET next == IF current_servo < servo_target
                   THEN FloatInc(current_servo)
                   ELSE FloatDec(current_servo)
       IN  /\ current_servo' = next
           /\ hw' = setServo(next)
    /\ vel_elapsed' = Elapse(vel_elapsed, StepDelay)
    /\ ang_elapsed' = Elapse(ang_elapsed, StepDelay)
    /\ ramp_steps' = ramp_steps + 1
    /\ UNCHANGED <<pc, rx, _get_vel_vel, _get_ang_vel, _get_fork_pos, fork_new,
                   servo_target, vel, ang_vel, ramp_from>>

\* the while loop exits;  fork_new = false;
RampDone ==
    /\ pc = "ramp"
    /\ UNCHANGED <<part, client, decoded, doubleConvert>>
    /\ current_servo = servo_target
    /\ fork_new' = FALSE
    /\ hw' = NoCall
    /\ pc' = "drive"
    /\ UNCHANGED <<rx, _get_vel_vel, vel_elapsed, _get_ang_vel, ang_elapsed,
                   _get_fork_pos, servo_target, current_servo, vel, ang_vel,
                   ramp_from, ramp_steps>>

\* vels_drive_wheels(vel, ang_vel);  loop() returns, its locals end
DriveWheels ==
    /\ pc = "drive"
    /\ UNCHANGED <<part, client, doubleConvert>>
    /\ hw' = Dispatched[vel, ang_vel]
    /\ vel' = 0
    /\ ang_vel' = 0
    /\ ramp_from' = current_servo
    /\ ramp_steps' = 0
    /\ decoded' = [ch \in Channels |-> NoCmd]
    /\ pc' = "get_vel"
    /\ UNCHANGED <<rx, _get_vel_vel, vel_elapsed, _get_ang_vel, ang_elapsed,
                   _get_fork_pos, fork_new, servo_target, current_servo>>

Program ==
    \/ SetupMax
    \/ SetupMin
    \/ \E dt \in LoopTimes : GetVel(dt)
    \/ GetAngVel
    \/ GetFork
    \/ RampStep
    \/ RampDone
    \/ DriveWheels

Host ==
    \/ \E d \in VelCmds : Send("vel", d)
    \/ \E d \in AngCmds : Send("ang", d)
    \/ \E d \in ForkCmds : Send("fork", d)

Next == Program \/ Host

Spec == Init /\ [][Next]_vars

\* a host that also lets a command arrive in two parts, and queues one
\* fork command more
BurstHost ==
    \/ \E d \in VelCmds : Send("vel", d)
    \/ \E d \in ForkCmds : SendUpTo("fork", d, MaxQueue + 1)
    \/ \E n \in PartSizes : SendPart("vel", n, MaxQueue)
    \/ \E n \in PartSizes : SendPart("fork", n, MaxQueue + 1)

BurstNext == Program \/ BurstHost

BurstSpec == Init /\ [][BurstNext]_vars

\* a host that exercises the wheel arithmetic
KinHost ==
    \/ \E d \in KinVelCmds : Send("vel", d)
    \/ \E d \in KinAngCmds : Send("ang", d)
    \/ \E d \in KinForkCmds : Send("fork", d)

KinNext == Program \/ KinHost

KinSpec == Init /\ [][KinNext]_vars

\* a host that only moves the fork
RampHost == \E d \in RampForkCmds : Send("fork", d)

RampNext == Program \/ RampHost

\* the fork moves, and loop() is called again and again
RampSpec == Init /\ [][RampNext]_vars /\ WF_vars(Program)

\* loop() is called again and again, and every pass takes time
FairSpec == Spec /\ WF_vars(Program)

(* ------------------------- steps of the program ------------------------ *)
\* the step is the poll get_vel / get_ang_vel / get_fork
VelPoll == pc = "get_vel" /\ pc' = "get_ang_vel"
AngPoll == pc = "get_ang_vel" /\ pc' = "get_fork"
ForkPoll == pc = "get_fork" /\ pc' \in {"ramp", "drive"}
\* the step is a poll that decodes a command
VelDecode == VelPoll /\ Decodes("vel")
AngDecode == AngPoll /\ Decodes("ang")
ForkDecode == ForkPoll /\ Decodes("fork")
\* the step is a pass of the ramp's while loop
RampMove == pc = "ramp" /\ pc' = "ramp" /\ ramp_steps' = ramp_steps + 1
\* the step is the wheel dispatch
Dispatch == pc = "drive" /\ pc' = "get_vel"

(* ------------------------------- claims -------------------------------- *)

\* C1: fail-safe stop.  If from some point on no command is decoded on the
\* linear or the angular channel, then (the loop running on, fork commands
\* arriving or not) the wheels are eventually dispatched (0, 0) and every
\* dispatch from some point on is (0, 0).
C1_FailSafeStop ==
    <>[][~(VelDecode \/ AngDecode)]_vars
        => /\ <>(hw = SetDuty(0, 0))
           /\ <>[](hw.call = "setDuty" => hw = SetDuty(0, 0))

\* C1 witness: both channels received a command 501 ms ago and none since,
\* and the wheels have just been dispatched (0, 0)
C1_Witness ==
    /\ pc = "get_vel"
    /\ hw = SetDuty(0, 0)
    /\ vel_elapsed = 501
    /\ ang_elapsed = 501

\* C2: a velocity poll that decodes nothing returns 0 when more than 500 ms
\* have passed since the channel's last command, and the stored value
\* otherwise (at exactly 500 ms still the stored value, at 501 ms 0).
C2_GateThreshold ==
    [][ /\ (VelPoll /\ ~Decodes("vel"))
            => vel' = (IF vel_elapsed' > 500 THEN 0 ELSE _get_vel_vel)
        /\ (AngPoll /\ ~Decodes("ang"))
            => ang_vel' = (IF ang_elapsed' > 500 THEN 0 ELSE _get_ang_vel)
      ]_vars

\* C2 witness: get_vel has just returned a nonzero stored value exactly
\* 500 ms after the command was received
C2_Witness ==
    /\ pc = "get_ang_vel"
    /\ vel_elapsed = 500
    /\ vel # 0
    /\ vel = _get_vel_vel

\* C3: the gate is level-triggered.  A poll of a velocity channel that has
\* already been silent for more than 500 ms, and decodes nothing, returns 0
\* and leaves the channel silent and its stored value 0, however much more
\* time has passed.
C3_LevelTriggered ==
    [][ /\ (VelPoll /\ ~Decodes("vel") /\ vel_elapsed > 500)
            => (vel' = 0 /\ _get_vel_vel' = 0 /\ vel_elapsed' > 500)
        /\ (AngPoll /\ ~Decodes("ang") /\ ang_elapsed > 500)
            => (ang_vel' = 0 /\ _get_ang_vel' = 0 /\ ang_elapsed' > 500)
      ]_vars

\* C3 witness: get_vel has returned 0 on a channel silent for as long as the
\* model measures, while the angular channel is alive in the same pass
C3_Witness ==
    /\ pc = "get_fork"
    /\ vel_elapsed = ElapsedCap
    /\ vel = 0
    /\ ang_vel # 0
    /\ ang_elapsed > 0

LoopPcs == {"get_vel", "get_ang_vel", "get_fork", "ramp", "drive"}

\* C4 (as claimed): in every state of the control loop current_servo and
\* servo_target lie within [128, 180].
C4_ActuatorInRange ==
    pc \in LoopPcs
        => /\ current_servo \in 128..180
           /\ servo_target \in 128..180

\* C5: every angle handed to servo3.setAngle lies within [128, 180].
C5_AppliedAngleInRange ==
    hw.call = "setAngle" => hw.angle \in 128..180

\* C5 witness: a ramp step toward a target above the range has been applied
\* with current_servo already past the upper limit
C5_Witness ==
    /\ pc = "ramp"
    /\ hw.call = "setAngle"
    /\ current_servo > 180
    /\ servo_target > 180

\* C6: a ramp between two positions within [128, 180] takes exactly
\* abs(target - current) steps and ends with current_servo = servo_target.
C6_RampConverges ==
    (/\ pc = "drive"
     /\ ramp_from \in 128..180
     /\ servo_target \in 128..180)
        => /\ ramp_steps = Abs(servo_target - ramp_from)
           /\ current_servo = servo_target

\* C6 witness: a downward ramp of two steps within the range has ended
C6_Witness ==
    /\ pc = "drive"
    /\ ramp_from = 131
    /\ servo_target = 129
    /\ ramp_steps = 2
    /\ current_servo = 129

\* C7 (as claimed): a target outside [128, 180] is clamped to the nearest
\* limit before the ramp, so current_servo never passes a limit during the
\* ramp, and the ramp ends at the limit after the distance to the limit.
C7_ClampedBeforeRamp ==
    /\ pc = "ramp" => current_servo \in 128..180
    /\ (pc = "drive" /\ _get_fork_pos > 180)
        => (current_servo = 180 /\ ramp_steps = Abs(180 - ramp_from))
    /\ (pc = "drive" /\ _get_fork_pos < 128)
        => (current_servo = 128 /\ ramp_steps = Abs(128 - ramp_from))

\* C8: every ramp step moves current_servo by exactly 1 toward the target
\* and hands that position to setServo (within the limits the servo gets
\* exactly that angle); the ramp ends at the target after
\* abs(target - start) steps with fork_new false.
C8_UnitSteps ==
    [][ /\ RampMove
            => /\ current_servo' - current_servo =
                      (IF servo_target > current_servo THEN 1 ELSE -1)
               /\ Abs(servo_target - current_servo') =
                      Abs(servo_target - current_servo) - 1
               /\ hw'.call = "setAngle"
               /\ current_servo' \in 128..180 => hw'.angle = current_servo'
               /\ ramp_steps' = Abs(current_servo' - ramp_from)
        /\ (pc = "ramp" /\ pc' = "drive")
            => /\ fork_new' = FALSE
               /\ current_servo' = servo_target
               /\ ramp_steps' = Abs(servo_target - ramp_from)
      ]_vars

\* C8 witness: the middle of an upward ramp, one unit step applied
C8_Witness ==
    /\ pc = "ramp"
    /\ ramp_from = 129
    /\ servo_target = 131
    /\ current_servo = 130
    /\ hw = SetAngle(130)
    /\ ramp_steps = 1

\* the step calls servo3.setAngle (every step of the program changes pc or
\* ramp_steps, no step of the host does)
ServoCall == hw'.call = "setAngle" /\ (pc' # pc \/ ramp_steps' # ramp_steps)

\* C9: the fork has no timeout.  With no fork command pending, a step that
\* decodes no fork command leaves current_servo alone, issues no servo
\* output and starts no ramp, whatever time has passed on the velocity
\* channels.
C9_ForkHeld ==
    [][ (pc \in LoopPcs /\ ~fork_new /\ ~ForkDecode)
            => /\ current_servo' = current_servo
               /\ ~ServoCall
               /\ ~fork_new'
               /\ pc' # "ramp"
      ]_vars

\* C9 witness: a reached target is held in a pass without a ramp, both
\* velocity channels silent for as long as the model measures
C9_Witness ==
    /\ pc = "drive"
    /\ ~fork_new
    /\ current_servo = 131
    /\ ramp_steps = 0
    /\ vel_elapsed = ElapsedCap
    /\ ang_elapsed = ElapsedCap

\* the whole number x is the double c
EqualsDouble(x, c) == x * c[2] = c[1]

\* C10 (as claimed): a decode stores the decoded value, fractional part
\* included, returns it, and restarts the channel's clock.
C10_DecodeKeepsValue ==
    [][ /\ VelDecode
            => /\ EqualsDouble(_get_vel_vel', Head(rx["vel"]))
               /\ EqualsDouble(vel', Head(rx["vel"]))
               /\ vel_elapsed' = 0
        /\ AngDecode
            => /\ EqualsDouble(_get_ang_vel', Head(rx["ang"]))
               /\ EqualsDouble(ang_vel', Head(rx["ang"]))
               /\ ang_elapsed' = 0
        /\ ForkDecode
            => /\ EqualsDouble(_get_fork_pos', Head(rx["fork"]))
               /\ EqualsDouble(servo_target', Head(rx["fork"]))
      ]_vars

NearFraction(f, n, d) ==
    IF f[1] = 0 THEN n = 0
    ELSE /\ f[2] < 0
         /\ Abs(f[1] * d - n * Pow2(-f[2])) <= 4 * d

\* the wheel pair computed at this dispatch
DispatchedPair == WheelPair(IntToFloat(vel), IntToFloat(ang_vel))

\* C12 (as claimed): at every dispatch the wheel pair is
\* ((2/9) lin - (17/18) ang, (2/9) lin + (17/18) ang) of the gated pair (to
\* the precision of a float); when the commands decoded in this pass are
\* (9, 0) the pair is (2, 2) and the duties are 20 and 20, and when they are
\* (0, 18/17) the pair is (-1, 1) and the duties are -10 and 10.
C12_KinematicMapper ==
    [][ Dispatch =>
          /\ NearFraction(DispatchedPair[1], 4 * vel - 17 * ang_vel, 18)
          /\ NearFraction(DispatchedPair[2], 4 * vel + 17 * ang_vel, 18)
          /\ (decoded["vel"] = <<9, 1>> /\ decoded["ang"] = <<0, 1>>)
                => /\ DispatchedPair = <<IntToFloat(2), IntToFloat(2)>>
                   /\ hw' = SetDuty(-20, 20)
          /\ (decoded["vel"] = <<0, 1>> /\ decoded["ang"] = <<18, 17>>)
                => /\ DispatchedPair = <<IntToFloat(-1), IntToFloat(1)>>
                   /\ hw' = SetDuty(-10, -10)
      ]_vars

\* the sign of a float
FloatSign(f) == IF f[1] > 0 THEN 1 ELSE IF f[1] < 0 THEN -1 ELSE 0

\* C13: at every wheel dispatch M2 (left) is given wheel_left * 10 and M1
\* (right) the negation of wheel_right * 10, each truncated to an int; a
\* nonzero left duty has the sign of wheel_left, a nonzero right duty the
\* opposite sign of wheel_right.  For the gated pair (2, 1), wheel_left is
\* just above -0.5 and wheel_right is 1.388...: M2 gets -4 and M1 gets -13.
C13_OutputAdaptation ==
    [][ Dispatch =>
          /\ hw'.call = "setDuty"
          /\ hw'.M2 = FloatToInt(FMulInt(DispatchedPair[1], 10))
          /\ hw'.M1 = -FloatToInt(FMulInt(DispatchedPair[2], 10))
          /\ hw'.M2 # 0 => hw'.M2 * FloatSign(DispatchedPair[1]) > 0
          /\ hw'.M1 # 0 => hw'.M1 * FloatSign(DispatchedPair[2]) < 0
          /\ (vel = 2 /\ ang_vel = 1) => hw' = SetDuty(-13, -4)
          /\ (vel = 9 /\ ang_vel = 0) => hw' = SetDuty(-20, 20)
      ]_vars

\* C13 witness: the pair (2, 1) has just been dispatched, both duties
\* negative: the left one by the sign of wheel_left, the right one by the
\* inversion
C13_Witness ==
    /\ pc = "get_vel"
    /\ _get_vel_vel = 2
    /\ _get_ang_vel = 1
    /\ vel_elapsed = 0
    /\ hw = SetDuty(-13, -4)

\* the step is one of the program (each changes pc or ramp_steps), not one
\* of the host
ProgramStep == pc' # pc \/ ramp_steps' # ramp_steps

\* C14: when the fork command decoded in this pass equals current_servo, the
\* ramp makes no step: the next step of the program leaves the while loop
\* with no servo output and no time passed, current_servo and servo_target
\* as they were, and fork_new cleared; the pass reaches the dispatch with
\* zero steps made.
C14_Idempotence ==
    [][ /\ (/\ ProgramStep
            /\ pc = "ramp"
            /\ ramp_steps = 0
            /\ decoded["fork"] # NoCmd
            /\ current_servo = servo_target)
            => /\ pc' = "drive"
               /\ hw'.call # "setAngle"
               /\ ramp_steps' = 0
               /\ vel_elapsed' = vel_elapsed
               /\ ang_elapsed' = ang_elapsed
               /\ current_servo' = current_servo
               /\ servo_target' = servo_target
               /\ ~fork_new'
        /\ (/\ Dispatch
            /\ decoded["fork"] # NoCmd
            /\ DoubleToInt(decoded["fork"]) = ramp_from)
            => /\ ramp_steps = 0
               /\ current_servo = ramp_from
               /\ ~fork_new
      ]_vars

\* C14 witness: 131.0 was decoded with the fork at 131, and the pass has
\* reached the dispatch without a step
C14_Witness ==
    /\ pc = "drive"
    /\ decoded["fork"] = <<131, 1>>
    /\ ramp_from = 131
    /\ current_servo = 131
    /\ ramp_steps = 0
    /\ ~fork_new

\* C15: get_vel and get_ang_vel return the value that has passed the gate
\* in that poll (the command just decoded, or the stored value, or 0 once
\* more than 500 ms have passed); the two locals keep these values up to the
\* dispatch of the same pass, and the dispatch is computed from exactly them.
\* A new pass starts with no value carried over in the locals.
C15_GatedSamePass ==
    [][ /\ VelPoll
            => vel' = (IF Decodes("vel") THEN DoubleToInt(Head(rx["vel"]))
                       ELSE IF vel_elapsed' > 500 THEN 0 ELSE _get_vel_vel)
        /\ AngPoll
            => ang_vel' = (IF Decodes("ang") THEN DoubleToInt(Head(rx["ang"]))
                           ELSE IF ang_elapsed' > 500 THEN 0 ELSE _get_ang_vel)
        /\ (pc \in {"get_ang_vel", "get_fork", "ramp"}) => vel' = vel
        /\ (pc \in {"get_fork", "ramp"}) => ang_vel' = ang_vel
        /\ Dispatch
            => /\ hw' = vels_drive_wheels(IntToFloat(vel), IntToFloat(ang_vel))
               /\ vel = _get_vel_vel
               /\ ang_vel = _get_ang_vel
               /\ vel' = 0
               /\ ang_vel' = 0
        /\ (hw'.call = "setDuty" /\ ProgramStep) => Dispatch
      ]_vars

\* C15 witness: the wheels have just been dispatched from (1, -1), both
\* values returned by this pass's polls, the linear one 500 ms old
C15_Witness ==
    /\ pc = "get_vel"
    /\ hw = SetDuty(7, 11)
    /\ _get_vel_vel = 1
    /\ vel_elapsed = 500
    /\ ang_elapsed <= 500

\* C16 (as claimed): at every wheel dispatch a nonzero value comes from a
\* command received at most 500 ms before the dispatch.
C16_FreshAtDispatch ==
    pc = "drive"
        => /\ vel # 0 => vel_elapsed <= 500
           /\ ang_vel # 0 => ang_elapsed <= 500

\* C16 (amended): a nonzero value returned by a velocity poll comes from a
\* command received at most 500 ms before that poll; from the poll to the
\* dispatch of the same pass the value is kept and the age of the command
\* grows by 20 ms with every step of the ramp, and by nothing else, so at a
\* dispatch after N steps the command is at most 500 + 20 N ms old.
C16_FreshAtPoll ==
    [][ /\ VelPoll => (vel' # 0 => vel_elapsed' <= 500)
        /\ AngPoll => (ang_vel' # 0 => ang_elapsed' <= 500)
        /\ (ProgramStep /\ pc \in {"get_ang_vel", "get_fork", "ramp"})
            => /\ vel' = vel
               /\ vel_elapsed' = (IF RampMove
                                  THEN min(vel_elapsed + 20, ElapsedCap)
                                  ELSE vel_elapsed)
        /\ (ProgramStep /\ pc \in {"get_fork", "ramp"})
            => /\ ang_vel' = ang_vel
               /\ ang_elapsed' = (IF RampMove
                                  THEN min(ang_elapsed + 20, ElapsedCap)
                                  ELSE ang_elapsed)
        /\ Dispatch
            => /\ vel # 0 => vel_elapsed <= 500 + 20 * ramp_steps
               /\ ang_vel # 0 => ang_elapsed <= 500 + 20 * ramp_steps
               /\ vel_elapsed' = vel_elapsed
               /\ ang_elapsed' = ang_elapsed
      ]_vars

\* C16 witness: a linear command was decoded in this pass, the ramp from 128
\* to 182 followed (54 steps, 1080 ms), and the pass stands at the dispatch
\* with the nonzero value of a command older than 500 ms
C16_Witness ==
    /\ pc = "drive"
    /\ decoded["vel"] # NoCmd
    /\ vel # 0
    /\ ramp_steps = 54
    /\ vel_elapsed > 500

\* C17: the ramp terminates.  Every step of the while loop brings
\* current_servo closer to the target, which stays as decoded; and whenever
\* the program is in the ramp it leaves it with current_servo equal to the
\* target and fork_new cleared, dispatches the wheels and is back at the
\* first poll.
C17_RampTerminates ==
    /\ [][ RampMove
              => /\ servo_target' = servo_target
                 /\ Abs(servo_target - current_servo')
                        < Abs(servo_target - current_servo) ]_vars
    /\ (pc = "ramp") ~>
           (pc = "drive" /\ current_servo = servo_target /\ ~fork_new)
    /\ (pc = "drive") ~> (pc = "get_vel")

\* C17 witness: the ramp from 182 to -2 (the command -2.5), far outside the
\* limits, has ended after 184 steps
C17_Witness ==
    /\ pc = "drive"
    /\ decoded["fork"] = <<-5, 2>>
    /\ ramp_from = 182
    /\ ramp_steps = 184
    /\ current_servo = -2
    /\ ~fork_new

\* q is p with commands appended
IsPrefix(p, q) == Len(p) <= Len(q) /\ SubSeq(q, 1, Len(p)) = p

\* C18: while the ramp is under way (current_servo not yet the target) no
\* step decodes or consumes anything on any channel, changes a stored value
\* or a polled value, dispatches the wheels, changes the target or leaves
\* the ramp; a fork command that arrives meanwhile is appended to the buffer
\* and stays there.  The ramp is left only with the target reached; a
\* queued command is decoded by the next get_fork only, which starts a ramp
\* of its own, counted from zero, toward that command; and a command
\* waiting in the buffer during a ramp is eventually decoded at the start
\* of a later ramp.
C18_NoInterleaving ==
    /\ [][ /\ (pc = "ramp" /\ current_servo # servo_target)
               => /\ pc' = "ramp"
                  /\ servo_target' = servo_target
                  /\ fork_new' = fork_new
                  /\ decoded' = decoded
                  /\ (\A ch \in Channels : IsPrefix(rx[ch], rx'[ch]))
                  /\ _get_vel_vel' = _get_vel_vel
                  /\ _get_ang_vel' = _get_ang_vel
                  /\ _get_fork_pos' = _get_fork_pos
                  /\ vel' = vel
                  /\ ang_vel' = ang_vel
                  /\ hw'.call # "setDuty"
           /\ (pc = "ramp" /\ pc' # "ramp")
               => (pc' = "drive" /\ current_servo = servo_target)
           /\ (rx'["fork"] # rx["fork"] /\ ~IsPrefix(rx["fork"], rx'["fork"]))
               => /\ ForkDecode
                  /\ rx'["fork"] = Tail(rx["fork"])
                  /\ ramp_steps = 0
                  /\ servo_target' = DoubleToInt(Head(rx["fork"]))
                  /\ pc' = "ramp"
                  /\ ramp_steps' = 0
                  /\ current_servo' = current_servo
         ]_vars
    /\ (pc = "ramp" /\ rx["fork"] # <<>>)
           ~> (pc = "ramp" /\ ramp_steps = 0 /\ decoded["fork"] # NoCmd)

\* C18 witness: 182.0 has arrived while the fork moves from 128 to 131, and
\* waits in the buffer with one step of the ramp left
C18_Witness ==
    /\ pc = "ramp"
    /\ ramp_from = 128
    /\ servo_target = 131
    /\ current_servo = 130
    /\ ramp_steps = 2
    /\ rx["fork"] = << <<182, 1>> >>

\* C19: a poll of one channel, whether it decodes a command, times out or
\* does neither, leaves the stored values, the buffers and the times of
\* receipt of the other two channels as they were (time alone passes); a
\* poll that decodes stores its own channel's command, and one that does not
\* takes nothing from doubleConvert, whatever another reader left there.
\* With the linear channel stale and the angular channel fresh at the polls
\* of a pass, the dispatch is that of linear 0 and the stored angular value.
C19_ChannelIndependence ==
    [][ /\ VelPoll
            => /\ _get_ang_vel' = _get_ang_vel
               /\ _get_fork_pos' = _get_fork_pos
               /\ (\E dt \in LoopTimes :
                      ang_elapsed' = min(ang_elapsed + dt, ElapsedCap))
               /\ rx'["ang"] = rx["ang"] /\ rx'["fork"] = rx["fork"]
               /\ _get_vel_vel' \in
                     (IF Decodes("vel") THEN {DoubleToInt(Head(rx["vel"]))}
                      ELSE {_get_vel_vel, 0})
        /\ AngPoll
            => /\ _get_vel_vel' = _get_vel_vel
               /\ vel' = vel
               /\ _get_fork_pos' = _get_fork_pos
               /\ vel_elapsed' = vel_elapsed
               /\ rx'["vel"] = rx["vel"] /\ rx'["fork"] = rx["fork"]
               /\ _get_ang_vel' \in
                     (IF Decodes("ang") THEN {DoubleToInt(Head(rx["ang"]))}
                      ELSE {_get_ang_vel, 0})
        /\ ForkPoll
            => /\ _get_vel_vel' = _get_vel_vel
               /\ _get_ang_vel' = _get_ang_vel
               /\ vel' = vel
               /\ ang_vel' = ang_vel
               /\ vel_elapsed' = vel_elapsed
               /\ ang_elapsed' = ang_elapsed
               /\ rx'["vel"] = rx["vel"] /\ rx'["ang"] = rx["ang"]
               /\ _get_fork_pos' =
                     (IF Decodes("fork") THEN DoubleToInt(Head(rx["fork"]))
                      ELSE _get_fork_pos)
        /\ (Dispatch /\ ramp_steps = 0 /\ vel_elapsed > 500
                /\ ang_elapsed <= 500)
            => /\ vel = 0
               /\ ang_vel = _get_ang_vel
               /\ hw' = vels_drive_wheels(IntToFloat(0),
                                          IntToFloat(_get_ang_vel))
               /\ _get_ang_vel = -1 => hw' = SetDuty(9, 9)
      ]_vars

\* C19 witness: the linear channel is stale, the angular command -1.5 is
\* 20 ms old, the last double in doubleConvert is a fork command, and the
\* wheels have just been dispatched from (0, -1)
C19_Witness ==
    /\ pc = "get_vel"
    /\ hw = SetDuty(9, 9)
    /\ vel_elapsed > 500
    /\ _get_vel_vel = 0
    /\ _get_ang_vel = -1
    /\ ang_elapsed = 20
    /\ doubleConvert = <<131, 1>>
====
